---- MODULE Spec2Model ----
(***************************************************************************)
(* Azure DNS provider of dnscontrol (providers/azuredns/azureDnsProvider.go) *)
(* as a state machine: the provider's zone cache, the remote account (zones *)
(* and their record-sets), the caller's last call and the plan it holds,   *)
(* and the GetDomainCorrections calls that run at the same time.            *)
(*                                                                         *)
(* A DNS name is a sequence of labels; a trailing dot is a last label ".".  *)
(* "host.d1." is <<"host", "d1", ".">> and "host.d1" is <<"host", "d1">>.   *)
(***************************************************************************)
EXTENDS Integers, Sequences, FiniteSets, TLC

VARIABLES zones, account, rsets, call, next, failed, replay, rerun, inflight

vars == <<zones, account, rsets, call, next, failed, replay, rerun, inflight>>

\* ---------------------------------------------------------------- bounds
\* longest desired record list of a DomainConfig
MaxRecs == 2

\* ------------------------------------------------------------- constants
\* nil pointers: a nil slice or name is the empty sequence, a nil string the
\* empty string, a nil struct pointer the empty option
NilSeq == <<>>

NilString == ""

Nil == <<>>

Some(x) == <<x>>

\* ---------------------------------------------------------------- helpers
Last(s) == s[Len(s)]

HasSuffix(s, suffix) ==
    /\ Len(suffix) <= Len(s)
    /\ SubSeq(s, Len(s) - Len(suffix) + 1, Len(s)) = suffix

\* strings.TrimSuffix
TrimSuffix(s, suffix) ==
    IF HasSuffix(s, suffix) THEN SubSeq(s, 1, Len(s) - Len(suffix)) ELSE s

Dot == <<".">>

RECURSIVE SetToSeq(_)
SetToSeq(S) ==
    IF S = {} THEN <<>>
    ELSE LET x == CHOOSE y \in S : TRUE IN <<x>> \o SetToSeq(S \ {x})

RECURSIVE Perms(_)
Perms(S) ==
    IF S = {} THEN {<<>>}
    ELSE UNION {{<<x>> \o p : p \in Perms(S \ {x})} : x \in S}

SeqsUpTo(S, n) == UNION {[1..m -> S] : m \in 0..n}

Range(s) == {s[i] : i \in 1..Len(s)}

\* ------------------------------------------------------------ record types
\* adns.RecordType values are the strings "A", "AAAA", ...
nativeToRecordType(recordType) ==
    CASE recordType = "A"     -> "A"
      [] recordType = "AAAA"  -> "AAAA"
      [] recordType = "CAA"   -> "CAA"
      [] recordType = "CNAME" -> "CNAME"
      [] recordType = "MX"    -> "MX"
      [] recordType = "NS"    -> "NS"
      [] recordType = "PTR"   -> "PTR"
      [] recordType = "SRV"   -> "SRV"
      [] recordType = "TXT"   -> "TXT"
      [] recordType = "SOA"   -> "SOA"
      [] OTHER                -> "panic"

azureRecordToRecordType(recordType) ==
    CASE recordType = "Microsoft.Network/dnszones/A"     -> "A"
      [] recordType = "Microsoft.Network/dnszones/AAAA"  -> "AAAA"
      [] recordType = "Microsoft.Network/dnszones/CAA"   -> "CAA"
      [] recordType = "Microsoft.Network/dnszones/CNAME" -> "CNAME"
      [] recordType = "Microsoft.Network/dnszones/MX"    -> "MX"
      [] recordType = "Microsoft.Network/dnszones/NS"    -> "NS"
      [] recordType = "Microsoft.Network/dnszones/PTR"   -> "PTR"
      [] recordType = "Microsoft.Network/dnszones/SRV"   -> "SRV"
      [] recordType = "Microsoft.Network/dnszones/TXT"   -> "TXT"
      [] recordType = "Microsoft.Network/dnszones/SOA"   -> "SOA"
      [] OTHER                                           -> "panic"

\* the resource type the remote service reports for a record-set of a type
AzureTypeName(recordType) ==
    CASE recordType = "A"     -> "Microsoft.Network/dnszones/A"
      [] recordType = "AAAA"  -> "Microsoft.Network/dnszones/AAAA"
      [] recordType = "CNAME" -> "Microsoft.Network/dnszones/CNAME"
      [] recordType = "MX"    -> "Microsoft.Network/dnszones/MX"
      [] OTHER                -> "Microsoft.Network/dnszones/SOA"

\* --------------------------------------------------------- models package
\* models.RecordConfig
RecordConfig(name, origin, type, target, pref, ttl) ==
    [Name |-> name, NameFQDN |-> name \o origin, Type |-> type,
     Target |-> target, MxPreference |-> pref, TTL |-> ttl]

\* models.RecordConfig.Key
Key(rc) == [NameFQDN |-> rc.NameFQDN, Type |-> rc.Type]

\* models.RecordConfig.SetLabelFromFQDN: the label is the name with the
\* origin trimmed (dnsutil.TrimDomainName leaves a name outside the origin
\* as it is), the FQDN is label + origin (dnsutil.AddOrigin).
SetLabelFromFQDN(rc, fqdn, origin) ==
    LET f     == TrimSuffix(fqdn, Dot)
        label == IF HasSuffix(f, origin) /\ Len(f) > Len(origin)
                 THEN TrimSuffix(f, origin) ELSE f
    IN  [rc EXCEPT !.Name = label, !.NameFQDN = label \o origin]

\* models.PostProcessRecords: downcases the names; the names of the model
\* are lower case
PostProcessRecords(recs) == recs

\* ------------------------------------------------- native record-set format
\* adns.RecordSet: one field of records per type, nil when unused
EmptyRecordSet(type) ==
    [Name |-> NilSeq, Type |-> type, Fqdn |-> NilSeq, TTL |-> 0,
     ARecords |-> NilSeq, AaaaRecords |-> NilSeq, CnameRecord |-> NilString,
     MxRecords |-> NilSeq]

NewRecordConfig(ttl) ==
    [Name |-> NilSeq, NameFQDN |-> NilSeq, Type |-> NilString,
     Target |-> NilString, MxPreference |-> 0, TTL |-> ttl]

nativeToRecords(set, origin) ==
    LET rc == SetLabelFromFQDN(NewRecordConfig(set.TTL), set.Fqdn, origin)
    IN CASE set.Type = "Microsoft.Network/dnszones/A" ->
              [i \in 1..Len(set.ARecords) |->
                  [rc EXCEPT !.Type = "A", !.Target = set.ARecords[i]]]
         [] set.Type = "Microsoft.Network/dnszones/AAAA" ->
              [i \in 1..Len(set.AaaaRecords) |->
                  [rc EXCEPT !.Type = "AAAA", !.Target = set.AaaaRecords[i]]]
         [] set.Type = "Microsoft.Network/dnszones/CNAME" ->
              <<[rc EXCEPT !.Type = "CNAME", !.Target = set.CnameRecord]>>
         [] set.Type = "Microsoft.Network/dnszones/MX" ->
              [i \in 1..Len(set.MxRecords) |->
                  [rc EXCEPT !.Type = "MX",
                             !.Target = set.MxRecords[i].Exchange,
                             !.MxPreference = set.MxRecords[i].Preference]]
         [] OTHER -> <<>>

AppendTo(field, x) == IF field = NilSeq THEN <<x>> ELSE Append(field, x)

RECURSIVE recordToNativeLoop(_, _, _, _)
recordToNativeLoop(recordSet, recordKey, recordConfig, i) ==
    IF i > Len(recordConfig) THEN recordSet
    ELSE LET rec == recordConfig[i]
             upd == CASE recordKey.Type = "A" ->
                          [recordSet EXCEPT !.ARecords = AppendTo(@, rec.Target)]
                      [] recordKey.Type = "AAAA" ->
                          [recordSet EXCEPT !.AaaaRecords = AppendTo(@, rec.Target)]
                      [] recordKey.Type = "CNAME" ->
                          [recordSet EXCEPT !.CnameRecord = rec.Target]
                      [] recordKey.Type = "MX" ->
                          [recordSet EXCEPT !.MxRecords = AppendTo(@,
                              [Exchange |-> rec.Target,
                               Preference |-> rec.MxPreference])]
                      [] OTHER -> recordSet
         IN recordToNativeLoop(upd, recordKey, recordConfig, i + 1)

\* returns the record-set; the record type returned with it is
\* nativeToRecordType(recordKey.Type)
recordToNative(recordKey, recordConfig) ==
    recordToNativeLoop(EmptyRecordSet(recordKey.Type), recordKey, recordConfig, 1)

\* ------------------------------------------------------------ remote service
\* the record-sets of a zone in the order the service lists them
ListAllByDNSZone(rs, zoneName) == SetToSeq(rs[zoneName])

\* Delete succeeds whether or not the record-set exists
RemoteDelete(rs, zoneName, name, type) ==
    [rs EXCEPT ![zoneName] =
        {s \in @ : ~(s.Name = name /\ azureRecordToRecordType(s.Type) = type)}]

\* a CNAME cannot coexist with an A or AAAA record-set of the same name
RemoteRejects(rs, zoneName, name, type) ==
    \E s \in rs[zoneName] :
        /\ s.Name = name
        /\ LET e == azureRecordToRecordType(s.Type)
           IN \/ type = "CNAME" /\ e \in {"A", "AAAA"}
              \/ type \in {"A", "AAAA"} /\ e = "CNAME"

\* CreateOrUpdate replaces the whole record-set (name, type) of the zone
RemoteCreateOrUpdate(rs, zoneName, name, type, rrset) ==
    LET stored == [rrset EXCEPT !.Name = name,
                                !.Type = AzureTypeName(type),
                                !.Fqdn = name \o zoneName \o Dot]
    IN [rs EXCEPT ![zoneName] =
           {s \in @ : ~(s.Name = name /\ azureRecordToRecordType(s.Type) = type)}
           \cup {stored}]

\* ------------------------------------------------------------------- differ
\* what the differ compares of a record: its payload and its TTL
Payload(rc) == [Target |-> rc.Target, MxPreference |-> rc.MxPreference, TTL |-> rc.TTL]

CountIn(recs, k, p) ==
    Cardinality({i \in 1..Len(recs) : Key(recs[i]) = k /\ Payload(recs[i]) = p})

\* diff.Differ.ChangedGroups: the keys of either side whose record-sets
\* differ in TTL or in the multiset of payloads
ChangedGroups(desired, existing) ==
    LET all == Range(desired) \cup Range(existing)
    IN {k \in {Key(r) : r \in all} :
           \E p \in {Payload(r) : r \in all} :
               CountIn(desired, k, p) # CountIn(existing, k, p)}

\* ------------------------------------------------------------------ inputs
\* the zones an account can hold, with the nameservers the service gave them
Zone(name) ==
    [Name |-> name,
     ZoneProperties |->
        Some([NameServers |->
                IF name = <<"d1">>
                THEN <<"ns1-01.azure-dns.com.", "ns2-01.azure-dns.net.">>
                ELSE <<"ns1-02.azure-dns.com.", "ns2-02.azure-dns.net.">>])]

ZoneNames == {<<"d1">>, <<"d2">>}

\* what ListByResourceGroup can return when the provider is constructed
AccountListings ==
    {<<Zone(<<"d2">>)>>, <<Zone(<<"d1">>), Zone(<<"d2">>)>>}

\* the domain under reconciliation
DcName == <<"d1">>

\* the records a desired configuration is made of
DesiredRecords ==
    {RecordConfig(<<"host">>, DcName, "A", "1.1.1.1", 0, 300),
     RecordConfig(<<"host">>, DcName, "A", "2.2.2.2", 0, 300),
     RecordConfig(<<"host">>, DcName, "A", "2.2.2.2", 0, 600),
     RecordConfig(<<"host">>, DcName, "AAAA", "::1", 0, 300),
     RecordConfig(<<"host">>, DcName, "CNAME", "target.example.com.", 0, 300),
     RecordConfig(<<"host">>, DcName, "CNAME", "target.example.com.", 0, 600),
     RecordConfig(<<"host">>, DcName, "MX", "mx.example.com.", 10, 300),
     RecordConfig(<<"www">>, DcName, "A", "1.1.1.1", 0, 300)}

\* models.DomainConfig; Convertible says whether its names convert to ASCII
DomainConfigs ==
    {[Name |-> DcName, Records |-> r, Convertible |-> c] :
        r \in SeqsUpTo(DesiredRecords, MaxRecs), c \in BOOLEAN}

\* models.DomainConfig.Punycode: the error of the conversion; the names of
\* the model are ASCII and stay as they are
Punycode(dc) == IF dc.Convertible THEN "nil" ELSE "punycode"

\* ---------------------------------------------------------------- provider
\* getZones: "for _, z := range ... { a.zones[domain] = &z }".  With one
\* loop variable per loop (Go before 1.22) every entry points at the same
\* variable, which holds the last zone of the listing when the loop ends;
\* with one variable per iteration (Go 1.22 on) each entry keeps its zone.
getZones(listing, perIteration) ==
    [domain \in {TrimSuffix(listing[i].Name, Dot) : i \in 1..Len(listing)} |->
        IF perIteration
        THEN LET idx == {i \in 1..Len(listing) :
                            TrimSuffix(listing[i].Name, Dot) = domain}
             IN listing[CHOOSE i \in idx : \A j \in idx : j <= i]
        ELSE Last(listing)]

\* what a call leaves with its caller: the return values, the remote
\* requests it issued, and for GetDomainCorrections its locals
Returned(op, domain, dc, ns, corrections, err, requests, records, names) ==
    [op |-> op, domain |-> domain, dc |-> dc, ns |-> ns,
     corrections |-> corrections, err |-> err, requests |-> requests,
     records |-> records, namesToUpdate |-> names]

NoDc == [Name |-> NilSeq, Records |-> <<>>, Convertible |-> TRUE]

NoCall == Returned("none", NilSeq, NoDc, <<>>, <<>>, "nil", <<>>, <<>>, {})

\* mutant: the cache is never consulted
zoneKnown_Never(domain) == FALSE

\* "_, ok := a.zones[domain]"
zoneKnown(domain) == domain \in DOMAIN zones

\* mutant: an unknown domain yields no nameservers and no error
nameserversOf_NoError(domain) ==
    IF domain \notin DOMAIN zones THEN [ns |-> <<>>, err |-> "nil"]
    ELSE [ns  |-> zones[domain].ZoneProperties[1].NameServers, err |-> "nil"]

\* GetNameservers, lines 98-111
nameserversOf(domain) ==
    IF ~zoneKnown(domain) THEN [ns |-> <<>>, err |-> "errNoExist"]
    ELSE LET zone == zones[domain]
         IN [ns  |-> IF zone.ZoneProperties # Nil
                     THEN zone.ZoneProperties[1].NameServers ELSE <<>>,
             err |-> "nil"]

\* fetchRecordSets
fetchRecordSets(zoneName, recordsErr) ==
    IF zoneName = NilSeq THEN [records |-> <<>>, err |-> "nil"]
    ELSE IF recordsErr THEN [records |-> <<>>, err |-> "remote"]
    ELSE [records |-> ListAllByDNSZone(rsets, zoneName), err |-> "nil"]

RECURSIVE Flatten(_)
Flatten(ss) == IF ss = <<>> THEN <<>> ELSE Head(ss) \o Flatten(Tail(ss))

\* mutant: each record-set of the listing replaces the records converted
\* before it instead of being appended to them
existingRecordsOf_LastOnly(records, origin) ==
    PostProcessRecords(
        IF records = <<>> THEN <<>> ELSE nativeToRecords(Last(records), origin))

\* lines 131-136: the existing records of a listing
existingRecordsOf(records, origin) ==
    PostProcessRecords(
        Flatten([i \in 1..Len(records) |-> nativeToRecords(records[i], origin)]))

Correction(msg, op, zoneName, name, type, rrset) ==
    [Msg |-> msg, Op |-> op, Zone |-> zoneName, Name |-> name, Type |-> type,
     RRSet |-> rrset]

\* mutant: the desired records are matched to the key by type alone
updatesOf_ByType(dc, k) == SelectSeq(dc.Records, LAMBDA rc : rc.Type = k.Type)

\* lines 147-154
updatesOf(dc, k) == SelectSeq(dc.Records, LAMBDA rc : Key(rc) = k)

\* mutant: the delete is addressed by the FQDN of the key, not by the name of
\* the record-set found
deleteGroup_ByFqdn(k, records, zone) ==
    IF \E i \in 1..Len(records) :
          /\ TrimSuffix(records[i].Fqdn, Dot) = k.NameFQDN
          /\ azureRecordToRecordType(records[i].Type) = nativeToRecordType(k.Type)
    THEN [err |-> "nil",
          corrections |->
            <<Correction(k, "Delete", zone.Name, k.NameFQDN,
                         nativeToRecordType(k.Type), EmptyRecordSet(NilString))>>]
    ELSE [err |-> "noRecordSet", corrections |-> <<>>]

\* lines 157-183: no desired record is left under the key
deleteGroup(k, records, zone) ==
    LET idx == {i \in 1..Len(records) :
                   /\ TrimSuffix(records[i].Fqdn, Dot) = k.NameFQDN
                   /\ azureRecordToRecordType(records[i].Type)
                        = nativeToRecordType(k.Type)}
    IN IF idx # {}
       THEN LET rrset == records[CHOOSE i \in idx : \A j \in idx : i <= j]
            IN [err |-> "nil",
                corrections |->
                  <<Correction(k, "Delete", zone.Name, rrset.Name,
                               azureRecordToRecordType(rrset.Type),
                               EmptyRecordSet(NilString))>>]
       ELSE [err |-> "noRecordSet", corrections |-> <<>>]

\* mutant: every listed record-set of the name of the key is cleared
conflicts_SameFqdn(r, k) == TrimSuffix(r.Fqdn, Dot) = k.NameFQDN

\* mutant: the test of line 197 is left out
conflicts_AnyCname(r, k) ==
    /\ TrimSuffix(r.Fqdn, Dot) = k.NameFQDN
    /\ \/ nativeToRecordType(k.Type) = "CNAME"
       \/ azureRecordToRecordType(r.Type) = "CNAME"

\* line 196-197: does the existing record-set r have to go before key k is
\* written
conflicts(r, k) ==
    LET existingRecordType == azureRecordToRecordType(r.Type)
        changedRecordType  == nativeToRecordType(k.Type)
    IN /\ TrimSuffix(r.Fqdn, Dot) = k.NameFQDN
       /\ (changedRecordType = "CNAME" \/ existingRecordType = "CNAME")
       /\ \/ existingRecordType = "A" \/ existingRecordType = "AAAA"
          \/ changedRecordType = "A" \/ changedRecordType = "AAAA"

\* lines 193-215: one delete per conflicting record-set of the listing, in
\* listing order
RECURSIVE clearingDeletes(_, _, _, _, _)
clearingDeletes(k, records, zone, recordName, i) ==
    IF i > Len(records) THEN <<>>
    ELSE (IF conflicts(records[i], k)
          THEN <<Correction(k, "Delete", zone.Name, recordName,
                            azureRecordToRecordType(records[i].Type),
                            EmptyRecordSet(NilString))>>
          ELSE <<>>)
         \o clearingDeletes(k, records, zone, recordName, i + 1)

\* mutant: the TTL of the record-set is never set
upsertPayload_NoTTL(k, recs) == recordToNative(k, recs)

\* lines 185-191: the payload of the upsert
upsertPayload(k, recs) == [recordToNative(k, recs) EXCEPT !.TTL = Last(recs).TTL]

\* mutant: the upsert is appended before the conflict-clearing deletes
upsertGroup_UpsertFirst(k, recs, records, zone) ==
    [err |-> "nil",
     corrections |->
        <<Correction(k, "CreateOrUpdate", zone.Name, Last(recs).Name,
                     nativeToRecordType(k.Type), upsertPayload(k, recs))>>
        \o clearingDeletes(k, records, zone, Last(recs).Name, 1)]

\* lines 185-231: desired records exist under the key
upsertGroup(k, recs, records, zone) ==
    LET rrset      == upsertPayload(k, recs)
        recordType == nativeToRecordType(k.Type)
        recordName == Last(recs).Name
    IN [err |-> "nil",
        corrections |->
            clearingDeletes(k, records, zone, recordName, 1)
            \o <<Correction(k, "CreateOrUpdate", zone.Name, recordName,
                            recordType, rrset)>>]

\* mutant: the corrections built so far are returned with the error
abortPlan_Partial(corrections, err) == [err |-> err, corrections |-> corrections]

\* the error return of line 182: nothing is returned with the error
abortPlan(corrections, err) == [err |-> err, corrections |-> <<>>]

\* lines 156-234, the keys taken in the order the map iteration yields them
RECURSIVE planLoop(_, _, _, _, _, _)
planLoop(order, i, dc, records, zone, corrections) ==
    IF i > Len(order) THEN [err |-> "nil", corrections |-> corrections]
    ELSE LET k    == order[i]
             recs == updatesOf(dc, k)
             g    == IF Len(recs) = 0 THEN deleteGroup(k, records, zone)
                     ELSE upsertGroup(k, recs, records, zone)
         IN IF g.err # "nil" THEN abortPlan(corrections, g.err)
            ELSE planLoop(order, i + 1, dc, records, zone,
                          corrections \o g.corrections)

\* ------------------------------------------------------------------- state
\* a GetDomainCorrections call that is running: where it stands in the
\* function and its locals (dc, zone, records, namesToUpdate, corrections)
IdleCall ==
    [at |-> "idle", dc |-> NoDc, zone |-> Nil, requests |-> <<>>,
     records |-> <<>>, names |-> {}, corrections |-> <<>>, err |-> "nil"]

TypeOK ==
    /\ DOMAIN zones \subseteq ZoneNames
    /\ \A i \in 1..Len(account) : account[i].Name \in ZoneNames
    /\ DOMAIN rsets = ZoneNames
    /\ call.op \in {"none", "GetNameservers", "GetDomainCorrections",
                    "EnsureDomainExists"}
    /\ next \in 1..(Len(call.corrections) + 1)
    /\ failed \in BOOLEAN
    /\ replay \in BOOLEAN
    /\ rerun \in {"no", "full", "partial"}
    /\ DOMAIN inflight = ZoneNames
    /\ \A d \in ZoneNames : inflight[d].at \in {"idle", "fetch", "plan", "done"}

\* newAzureDns: the provider is constructed and getZones has filled the cache
Init ==
    /\ account \in AccountListings
    /\ \E perIteration \in BOOLEAN : zones = getZones(account, perIteration)
    /\ rsets = [z \in ZoneNames |-> {}]
    /\ call = NoCall
    /\ next = 1
    /\ failed = FALSE
    /\ replay = FALSE
    /\ rerun = "no"
    /\ inflight = [d \in ZoneNames |-> IdleCall]

\* the call before this one returned a plan for the same configuration and
\* the caller went through it: "full" when every correction was executed
\* without an error, "partial" when some failed or were left out
followsRun(c) ==
    IF /\ c.op = "GetDomainCorrections"
       /\ call.op = "GetDomainCorrections"
       /\ call.err = "nil"
       /\ call.dc = c.dc
       /\ next > Len(call.corrections)
    THEN IF failed THEN "partial" ELSE "full"
    ELSE "no"

\* the caller receives the return values of a call
Return(c, isReplay) ==
    /\ call' = c
    /\ next' = 1
    /\ failed' = FALSE
    /\ replay' = isReplay
    /\ rerun' = followsRun(c)

\* ----------------------------------------------------------------- actions
\* the caller (dnscontrol preview, dnscontrol push) runs none of the
\* corrections of a plan or all of them, one after the other
CallerIdle == next = 1 \/ next > Len(call.corrections)

\* the caller holds no result of an earlier call
Fresh == call.op = "none"

\* the caller has run the whole plan of its last GetDomainCorrections call
PlanRun ==
    /\ call.op = "GetDomainCorrections"
    /\ next > Len(call.corrections)

GetNameservers(domain) ==
    /\ Fresh
    /\ LET r == nameserversOf(domain)
       IN Return(Returned("GetNameservers", domain, NoDc, r.ns, <<>>, r.err,
                          <<>>, <<>>, {}), FALSE)
    /\ UNCHANGED <<zones, account, rsets, inflight>>

\* mutant: a delete of a record-set that is not there returns an error
F_DeleteStrict(rs, c) ==
    IF c.Op = "Delete"
    THEN IF \E s \in rs[c.Zone] :
               s.Name = c.Name /\ azureRecordToRecordType(s.Type) = c.Type
         THEN [rsets |-> RemoteDelete(rs, c.Zone, c.Name, c.Type), err |-> "nil"]
         ELSE [rsets |-> rs, err |-> "remote"]
    ELSE IF RemoteRejects(rs, c.Zone, c.Name, c.Type)
    THEN [rsets |-> rs, err |-> "remote"]
    ELSE [rsets |-> RemoteCreateOrUpdate(rs, c.Zone, c.Name, c.Type, c.RRSet),
          err   |-> "nil"]

\* Correction.F of lines 169-179, 201-211 and 220-230: the one remote request
\* of a correction, on the remote record-sets rs; the closure returns the
\* error of the request.  The request fails when the service rejects it.
F(rs, c) ==
    IF c.Op = "Delete"
    THEN [rsets |-> RemoteDelete(rs, c.Zone, c.Name, c.Type), err |-> "nil"]
    ELSE IF RemoteRejects(rs, c.Zone, c.Name, c.Type)
    THEN [rsets |-> rs, err |-> "remote"]
    ELSE [rsets |-> RemoteCreateOrUpdate(rs, c.Zone, c.Name, c.Type, c.RRSet),
          err   |-> "nil"]

\* the plan before this call was computed for the same configuration and
\* every correction of it has been executed, in order, without an error
afterFullRun(dc) ==
    /\ call.op = "GetDomainCorrections"
    /\ call.err = "nil"
    /\ call.dc = dc
    /\ next > Len(call.corrections)
    /\ ~failed

\* mutant: the call executes the first correction of its plan before it
\* returns
GetDomainCorrections_Eager(dc, recordsErr) ==
    /\ Fresh \/ (PlanRun /\ dc = call.dc)
    /\ Punycode(dc) = "nil"
    /\ zoneKnown(dc.Name)
    /\ ~recordsErr
    /\ LET zone          == zones[dc.Name]
           fetched       == fetchRecordSets(zone.Name, recordsErr)
           requests      == <<[Op |-> "ListAllByDNSZone", Zone |-> zone.Name,
                               Err |-> fetched.err]>>
           records       == fetched.records
           namesToUpdate == ChangedGroups(dc.Records,
                                          existingRecordsOf(records, dc.Name))
       IN \E order \in Perms(namesToUpdate) :
            LET p == planLoop(order, 1, dc, records, zone, <<>>)
            IN /\ Return(Returned("GetDomainCorrections", dc.Name, dc, <<>>,
                                  p.corrections, p.err, requests, records,
                                  namesToUpdate), afterFullRun(dc))
               /\ rsets' = IF p.corrections = <<>> THEN rsets
                           ELSE F(rsets, p.corrections[1]).rsets
    /\ UNCHANGED <<zones, account, inflight>>

GetDomainCorrections(dc, recordsErr) ==
    /\ Fresh \/ (PlanRun /\ dc = call.dc)
    /\ UNCHANGED <<zones, account, rsets, inflight>>
    /\ IF Punycode(dc) # "nil"
       THEN Return(Returned("GetDomainCorrections", dc.Name, dc, <<>>, <<>>,
                            Punycode(dc), <<>>, <<>>, {}), FALSE)
       ELSE IF ~zoneKnown(dc.Name)
       THEN Return(Returned("GetDomainCorrections", dc.Name, dc, <<>>, <<>>,
                            "errNoExist", <<>>, <<>>, {}), FALSE)
       ELSE
         LET zone     == zones[dc.Name]
             fetched  == fetchRecordSets(zone.Name, recordsErr)
             requests == <<[Op |-> "ListAllByDNSZone", Zone |-> zone.Name,
                            Err |-> fetched.err]>>
         IN IF fetched.err # "nil"
            THEN Return(Returned("GetDomainCorrections", dc.Name, dc, <<>>,
                                 <<>>, fetched.err, requests, <<>>, {}), FALSE)
            ELSE
              LET records         == fetched.records
                  existingRecords == existingRecordsOf(records, dc.Name)
                  namesToUpdate   == ChangedGroups(dc.Records, existingRecords)
              IN IF namesToUpdate = {}
                 THEN Return(Returned("GetDomainCorrections", dc.Name, dc,
                                      <<>>, <<>>, "nil", requests, records,
                                      {}), afterFullRun(dc))
                 ELSE \E order \in Perms(namesToUpdate) :
                        LET p == planLoop(order, 1, dc, records, zone, <<>>)
                        IN Return(Returned("GetDomainCorrections", dc.Name,
                                           dc, <<>>, p.corrections, p.err,
                                           requests, records, namesToUpdate),
                                  afterFullRun(dc))

\* the caller runs the next correction of the plan it holds
RunCorrection ==
    /\ call.op = "GetDomainCorrections"
    /\ next <= Len(call.corrections)
    /\ LET r == F(rsets, call.corrections[next])
       IN /\ rsets' = r.rsets
          /\ failed' = (failed \/ r.err # "nil")
    /\ next' = next + 1
    /\ UNCHANGED <<zones, account, call, replay, rerun, inflight>>

\* the caller leaves the next correction of its plan out, or the request of
\* the correction fails before it reaches the service: nothing is applied
\* and nothing that was applied before is rolled back
SkipCorrection ==
    /\ call.op = "GetDomainCorrections"
    /\ next <= Len(call.corrections)
    /\ next' = next + 1
    /\ failed' = TRUE
    /\ UNCHANGED <<zones, account, rsets, call, replay, rerun, inflight>>

\* mutant: the zone that was created is added to the zone cache
EnsureDomainExists_Caching(domain, createErr) ==
    /\ Fresh
    /\ ~zoneKnown(domain)
    /\ ~createErr
    /\ Return(Returned("EnsureDomainExists", domain, NoDc, <<>>, <<>>, "nil",
                       <<[Op |-> "Zones.CreateOrUpdate", Zone |-> domain,
                          Err |-> "nil"]>>, <<>>, {}), FALSE)
    /\ account' = IF \E i \in 1..Len(account) : account[i].Name = domain
                  THEN account ELSE Append(account, Zone(domain))
    /\ zones' = [d \in DOMAIN zones \cup {domain} |->
                    IF d = domain THEN Zone(domain) ELSE zones[d]]
    /\ UNCHANGED <<rsets, inflight>>

EnsureDomainExists(domain, createErr) ==
    /\ Fresh
    /\ IF zoneKnown(domain)
       THEN /\ Return(Returned("EnsureDomainExists", domain, NoDc, <<>>, <<>>,
                               "nil", <<>>, <<>>, {}), FALSE)
            /\ account' = account
       ELSE LET err      == IF createErr THEN "remote" ELSE "nil"
                requests == <<[Op |-> "Zones.CreateOrUpdate", Zone |-> domain,
                               Err |-> err]>>
            IN /\ Return(Returned("EnsureDomainExists", domain, NoDc, <<>>,
                                  <<>>, err, requests, <<>>, {}), FALSE)
               /\ account' =
                    IF createErr \/ \E i \in 1..Len(account) :
                                      account[i].Name = domain
                    THEN account ELSE Append(account, Zone(domain))
    /\ UNCHANGED <<zones, rsets, inflight>>

\* the caller drops what the last call returned; a later run may come with
\* another configuration
Discard ==
    /\ ~Fresh
    /\ CallerIdle
    /\ Return(NoCall, FALSE)
    /\ UNCHANGED <<zones, account, rsets, inflight>>

Next ==
    \/ \E domain \in ZoneNames : GetNameservers(domain)
    \/ \E dc \in DomainConfigs, recordsErr \in BOOLEAN :
          GetDomainCorrections(dc, recordsErr)
    \/ RunCorrection
    \/ \E domain \in ZoneNames, createErr \in BOOLEAN :
          EnsureDomainExists(domain, createErr)
    \/ Discard

Spec == Init /\ [][Next]_vars

\* ------------------------------------------------------- concurrent calls
\* GetDomainCorrections calls for different domains that run at the same
\* time on one provider: the call for domain d is inflight[d], and a step
\* of it is one of the reads of the function (the zone cache, the remote
\* listing) or the computation of the plan from its locals
ConcRecords(d) ==
    {RecordConfig(<<"host">>, d, "A", "1.1.1.1", 0, 300),
     RecordConfig(<<"host">>, d, "CNAME", "target.example.com.", 0, 300)}

ConcConfigs(d) ==
    {[Name |-> d, Records |-> r, Convertible |-> TRUE] :
        r \in SeqsUpTo(ConcRecords(d), MaxRecs)}

NoOtherChange == UNCHANGED <<zones, account, rsets, call, next, failed, replay, rerun>>

\* lines 114-124: dc.Punycode() and the lookup in the zone cache
gdcLookup(d, dc) ==
    /\ Fresh
    /\ inflight[d].at = "idle"
    /\ inflight' = [inflight EXCEPT ![d] =
          IF Punycode(dc) # "nil"
          THEN [IdleCall EXCEPT !.at = "done", !.dc = dc, !.err = Punycode(dc)]
          ELSE IF ~zoneKnown(dc.Name)
          THEN [IdleCall EXCEPT !.at = "done", !.dc = dc, !.err = "errNoExist"]
          ELSE [IdleCall EXCEPT !.at = "fetch", !.dc = dc,
                                !.zone = Some(zones[dc.Name])]]
    /\ NoOtherChange

\* lines 126-129: the listing of the record-sets of the zone
gdcFetch(d, recordsErr) ==
    /\ inflight[d].at = "fetch"
    /\ LET zone     == inflight[d].zone[1]
           fetched  == fetchRecordSets(zone.Name, recordsErr)
           requests == <<[Op |-> "ListAllByDNSZone", Zone |-> zone.Name,
                          Err |-> fetched.err]>>
       IN inflight' = [inflight EXCEPT ![d] =
            IF fetched.err # "nil"
            THEN [@ EXCEPT !.at = "done", !.requests = requests,
                           !.err = fetched.err]
            ELSE [@ EXCEPT !.at = "plan", !.requests = requests,
                           !.records = fetched.records]]
    /\ NoOtherChange

\* lines 131-234: the diff and the plan, computed from the locals
gdcPlan(d) ==
    /\ inflight[d].at = "plan"
    /\ LET c             == inflight[d]
           existingRecords == existingRecordsOf(c.records, c.dc.Name)
           namesToUpdate == ChangedGroups(c.dc.Records, existingRecords)
       IN \E order \in Perms(namesToUpdate) :
            LET p == planLoop(order, 1, c.dc, c.records, c.zone[1], <<>>)
            IN inflight' = [inflight EXCEPT ![d] =
                  [@ EXCEPT !.at = "done", !.names = namesToUpdate,
                            !.corrections = p.corrections, !.err = p.err]]
    /\ NoOtherChange

\* the call returns to a caller that waited for the other calls to end
gdcReturn(d) ==
    /\ Fresh
    /\ inflight[d].at = "done"
    /\ \A e \in ZoneNames \ {d} : inflight[e].at = "idle"
    /\ LET c == inflight[d]
       IN Return(Returned("GetDomainCorrections", c.dc.Name, c.dc, <<>>,
                          c.corrections, c.err, c.requests, c.records,
                          c.names), FALSE)
    /\ inflight' = [inflight EXCEPT ![d] = IdleCall]
    /\ UNCHANGED <<zones, account, rsets>>

\* the caller drops what the call returned
gdcDrop(d) ==
    /\ inflight[d].at = "done"
    /\ inflight' = [inflight EXCEPT ![d] = IdleCall]
    /\ NoOtherChange

NextConc ==
    \/ \E d \in ZoneNames : \E dc \in ConcConfigs(d) : gdcLookup(d, dc)
    \/ \E d \in ZoneNames, recordsErr \in BOOLEAN : gdcFetch(d, recordsErr)
    \/ \E d \in ZoneNames : gdcPlan(d)
    \/ \E d \in ZoneNames : gdcReturn(d)
    \/ \E d \in ZoneNames : gdcDrop(d)
    \/ RunCorrection
    \/ \E domain \in ZoneNames : GetNameservers(domain)
    \/ \E domain \in ZoneNames, createErr \in BOOLEAN :
          EnsureDomainExists(domain, createErr)
    \/ Discard

SpecConc == Init /\ [][NextConc]_vars

\* the records of the configurations of a caller that may leave corrections
\* out
PartialRecords ==
    {RecordConfig(<<"host">>, DcName, "A", "1.1.1.1", 0, 300),
     RecordConfig(<<"host">>, DcName, "A", "2.2.2.2", 0, 600),
     RecordConfig(<<"host">>, DcName, "CNAME", "target.example.com.", 0, 300),
     RecordConfig(<<"host">>, DcName, "CNAME", "other.example.com.", 0, 300),
     RecordConfig(<<"www">>, DcName, "A", "1.1.1.1", 0, 300)}

PartialConfigs ==
    {[Name |-> DcName, Records |-> r, Convertible |-> TRUE] :
        r \in SeqsUpTo(PartialRecords, MaxRecs)}

\* a caller that executes any subset of a plan and then runs again
NextPartial ==
    \/ \E dc \in PartialConfigs : GetDomainCorrections(dc, FALSE)
    \/ RunCorrection
    \/ SkipCorrection
    \/ Discard

SpecPartial == Init /\ [][NextPartial]_vars

\* ------------------------------------------------------------------ claims
IsGDC == call.op = "GetDomainCorrections"

\* the call listed the remote record-sets and went on to diff them
Listed == IsGDC /\ call.err \in {"nil", "noRecordSet"}

\* the key a record-set of the listing is the record-set of
NativeKey(set) ==
    [NameFQDN |-> TrimSuffix(set.Fqdn, Dot), Type |-> azureRecordToRecordType(set.Type)]

\* the payloads a record-set of the listing holds
NativePayloads(set) ==
    LET t == azureRecordToRecordType(set.Type)
    IN  IF t = "A" THEN [i \in 1..Len(set.ARecords) |-> <<set.ARecords[i], 0>>]
        ELSE IF t = "AAAA"
        THEN [i \in 1..Len(set.AaaaRecords) |-> <<set.AaaaRecords[i], 0>>]
        ELSE IF t = "CNAME" THEN <<(<<set.CnameRecord, 0>>)>>
        ELSE [i \in 1..Len(set.MxRecords) |->
                 <<set.MxRecords[i].Exchange, set.MxRecords[i].Preference>>]

Occurrences(seq, x) == Cardinality({i \in 1..Len(seq) : seq[i] = x})

DesiredUnder(dc, k) == {i \in 1..Len(dc.Records) : Key(dc.Records[i]) = k}

\* the listing and the desired records hold the same keys, and under each
\* key the same TTL and the same multiset of targets
Converged(records, dc) ==
    /\ \A i \in 1..Len(dc.Records) :
          \E j \in 1..Len(records) : NativeKey(records[j]) = Key(dc.Records[i])
    /\ \A j \in 1..Len(records) :
          LET set  == records[j]
              mine == DesiredUnder(dc, NativeKey(set))
              want == [i \in 1..Len(dc.Records) |->
                          <<dc.Records[i].Target, dc.Records[i].MxPreference>>]
          IN /\ mine # {}
             /\ \A i \in mine : dc.Records[i].TTL = set.TTL
             /\ Cardinality(mine) = Len(NativePayloads(set))
             /\ \A i \in mine :
                   Cardinality({h \in mine : want[h] = want[i]})
                     = Occurrences(NativePayloads(set), want[i])

\* the cache entry of the reconciled domain is the zone of that name
OwnZone == zoneKnown(DcName) /\ zones[DcName].Name = DcName

\* C1 (as claimed): when every correction of a plan has been executed
\* successfully, in the returned order, a second GetDomainCorrections for the
\* same configuration on the refreshed listing returns an empty plan.
C1_IdempotentReplay ==
    (replay /\ OwnZone) => (call.err = "nil" /\ call.corrections = <<>>)

\* C2: when the listed record-sets equal the desired records (same keys, same
\* TTL, same multiset of targets per key), the differ reports no changed key
\* and GetDomainCorrections returns no correction and no error.
C2_NoOpConvergence ==
    (Listed /\ Converged(call.records, call.dc)) =>
        /\ call.namesToUpdate = {}
        /\ call.corrections = <<>>
        /\ call.err = "nil"

\* a converged zone whose targets are listed in another order than desired
C2_Witness ==
    /\ Listed
    /\ Converged(call.records, call.dc)
    /\ Len(call.dc.Records) = 2
    /\ Len(call.records) = 1
    /\ call.records[1].ARecords # [i \in 1..2 |-> call.dc.Records[i].Target]
    /\ call.corrections = <<>>

\* C3: in the returned sequence every conflict-clearing delete of a key comes
\* before the upsert of that key.
C3_ClearingDeletesBeforeUpsert ==
    IsGDC =>
        \A i, j \in 1..Len(call.corrections) :
            (/\ call.corrections[i].Op = "Delete"
             /\ call.corrections[j].Op = "CreateOrUpdate"
             /\ call.corrections[i].Msg = call.corrections[j].Msg) => i < j

\* existing A at host, desired CNAME at host: the delete of the A set and
\* the upsert of the CNAME set are both in the plan
C3_Witness ==
    /\ IsGDC
    /\ \E i, j \in 1..Len(call.corrections) :
          /\ call.corrections[i].Op = "Delete"
          /\ call.corrections[i].Type = "A"
          /\ call.corrections[j].Op = "CreateOrUpdate"
          /\ call.corrections[j].Type = "CNAME"
          /\ call.corrections[i].Msg = call.corrections[j].Msg
          /\ i < j

\* the changed keys that have desired records, and those that have none
UpsertKeys == {k \in call.namesToUpdate : DesiredUnder(call.dc, k) # {}}

DeleteKeys == {k \in call.namesToUpdate : DesiredUnder(call.dc, k) = {}}

\* the record-sets of the listing that are the record-set of key k
Matching(k) == {i \in 1..Len(call.records) : NativeKey(call.records[i]) = k}

DeletesOf(k, t) ==
    {i \in 1..Len(call.corrections) :
        /\ call.corrections[i].Op = "Delete"
        /\ call.corrections[i].Msg = k
        /\ call.corrections[i].Type = t}

\* the listed record-sets of type t that cannot stay next to key k
ConflictingWith(k, t) ==
    {i \in 1..Len(call.records) :
        /\ NativeKey(call.records[i]).NameFQDN = k.NameFQDN
        /\ NativeKey(call.records[i]).Type = t
        /\ \/ k.Type = "CNAME" /\ t \in {"A", "AAAA"}
           \/ k.Type \in {"A", "AAAA"} /\ t = "CNAME"}

AdnsTypes == {"A", "AAAA", "CNAME", "MX"}

\* C4: for a changed key with desired records the plan holds one
\* conflict-clearing delete, of the type of the existing set, for each listed
\* record-set of the same FQDN that is (key CNAME, set A or AAAA) or (key A
\* or AAAA, set CNAME), and no other delete for that key.
C4_ConflictClearingRule ==
    (IsGDC /\ call.err = "nil") =>
        \A k \in UpsertKeys : \A t \in AdnsTypes :
            Cardinality(DeletesOf(k, t)) = Cardinality(ConflictingWith(k, t))

\* desired CNAME at a name that holds an A and an AAAA set: two deletes
C4_Witness ==
    /\ IsGDC
    /\ call.err = "nil"
    /\ \E k \in UpsertKeys :
          /\ k.Type = "CNAME"
          /\ DeletesOf(k, "A") # {}
          /\ DeletesOf(k, "AAAA") # {}

\* C5: a changed key without desired records whose record-set is listed gets
\* exactly one correction, a delete of the name and type of the first listed
\* record-set of that key, and no upsert.
C5_PureDelete ==
    IsGDC =>
        \A k \in DeleteKeys :
            Matching(k) # {} =>
                LET first == call.records[CHOOSE i \in Matching(k) :
                                             \A j \in Matching(k) : i <= j]
                    mine  == {i \in 1..Len(call.corrections) :
                                 call.corrections[i].Msg = k}
                IN /\ Cardinality(mine) = 1
                   /\ \A i \in mine :
                         /\ call.corrections[i].Op = "Delete"
                         /\ call.corrections[i].Zone = zones[call.dc.Name].Name
                         /\ call.corrections[i].Name = first.Name
                         /\ AzureTypeName(call.corrections[i].Type) = first.Type

\* a listed record-set that is no longer desired, next to a key that is
C5_Witness ==
    /\ IsGDC
    /\ \E k \in DeleteKeys : Matching(k) # {}
    /\ UpsertKeys # {}
    /\ Len(call.corrections) >= 2

C7_NotFound ==
    (call.op \in {"GetNameservers", "GetDomainCorrections"}
        /\ ~zoneKnown(call.domain)) =>
        /\ call.err = "errNoExist"
        /\ call.ns = <<>>
        /\ call.corrections = <<>>
        /\ call.requests = <<>>

\* C7 (amended): as claimed, except that GetDomainCorrections returns the
\* error of dc.Punycode(), not the not-found error, when that conversion
\* fails; it still returns no correction and issues no remote request.
C7_NotFoundAfterPunycode ==
    (call.op \in {"GetNameservers", "GetDomainCorrections"}
        /\ ~zoneKnown(call.domain)) =>
        /\ call.err = IF call.op = "GetDomainCorrections"
                         /\ ~call.dc.Convertible
                      THEN "punycode" ELSE "errNoExist"
        /\ call.ns = <<>>
        /\ call.corrections = <<>>
        /\ call.requests = <<>>

C7_Witness ==
    /\ IsGDC
    /\ ~zoneKnown(call.domain)
    /\ call.dc.Records # <<>>
    /\ call.err = "errNoExist"

\* the zone of the account listing that has the name of the domain
ZoneOfAccount(domain) ==
    account[CHOOSE i \in 1..Len(account) : TrimSuffix(account[i].Name, Dot) = domain]

\* C8 (as claimed): GetNameservers of a known domain returns the nameservers
\* of that domain's own zone, in the order the zone lists them.
C8_OwnNameservers ==
    (call.op = "GetNameservers" /\ zoneKnown(call.domain)) =>
        /\ call.err = "nil"
        /\ call.ns = ZoneOfAccount(call.domain).ZoneProperties[1].NameServers

\* C9: EnsureDomainExists issues no remote request and succeeds when the
\* domain is in the zone cache; otherwise it issues one zone-creation
\* request for that domain and returns the error of that request.
C9_ZoneExistenceGuard ==
    call.op = "EnsureDomainExists" =>
        IF call.domain \in DOMAIN zones
        THEN call.requests = <<>> /\ call.err = "nil"
        ELSE /\ Len(call.requests) = 1
             /\ call.requests[1].Op = "Zones.CreateOrUpdate"
             /\ call.requests[1].Zone = call.domain
             /\ call.err = call.requests[1].Err

C9_Witness ==
    /\ call.op = "EnsureDomainExists"
    /\ call.domain \notin DOMAIN zones
    /\ call.err = "remote"

UpsertsOf(k) ==
    {i \in 1..Len(call.corrections) :
        /\ call.corrections[i].Op = "CreateOrUpdate"
        /\ call.corrections[i].Msg = k}

\* C10: when the listing holds no record-set the plan is one upsert for each
\* desired key and nothing else.
C10_PureCreate ==
    (Listed /\ call.records = <<>>) =>
        /\ call.err = "nil"
        /\ \A i \in 1..Len(call.corrections) :
              call.corrections[i].Op = "CreateOrUpdate"
        /\ \A r \in Range(call.dc.Records) :
              /\ Cardinality(UpsertsOf(Key(r))) = 1
              /\ \A i \in UpsertsOf(Key(r)) :
                    /\ call.corrections[i].Type = r.Type
                    /\ call.corrections[i].Name = r.Name
        /\ Len(call.corrections) = Cardinality({Key(r) : r \in Range(call.dc.Records)})

\* two desired records of one key, nothing listed: one upsert
C10_Witness ==
    /\ Listed
    /\ call.records = <<>>
    /\ Len(call.dc.Records) = 2
    /\ Key(call.dc.Records[1]) = Key(call.dc.Records[2])
    /\ Len(call.corrections) = 1

\* the desired records of the key of a listed record-set hold the same
\* multiset of targets as that record-set
SamePayloads(set, dc) ==
    LET mine == DesiredUnder(dc, NativeKey(set))
        want == [i \in 1..Len(dc.Records) |->
                    <<dc.Records[i].Target, dc.Records[i].MxPreference>>]
    IN /\ Cardinality(mine) = Len(NativePayloads(set))
       /\ \A i \in mine :
             Cardinality({h \in mine : want[h] = want[i]})
               = Occurrences(NativePayloads(set), want[i])

\* key k is listed and desired with the same targets; the desired records
\* share one TTL, which is not the TTL of the listed record-set
TtlOnlyChange(k) ==
    /\ DesiredUnder(call.dc, k) # {}
    /\ Matching(k) # {}
    /\ \A j \in Matching(k) :
          /\ SamePayloads(call.records[j], call.dc)
          /\ \A i \in DesiredUnder(call.dc, k) :
                call.dc.Records[i].TTL # call.records[j].TTL
    /\ \A i, h \in DesiredUnder(call.dc, k) :
          call.dc.Records[i].TTL = call.dc.Records[h].TTL

ListedKeys == {NativeKey(call.records[j]) : j \in 1..Len(call.records)}

\* C11: when a key is listed and desired with the same targets and only the
\* TTL differs, the key is reported changed and the plan holds for it exactly
\* one correction: an upsert of the key's type that carries the desired TTL;
\* no delete is planned for the key.  This holds for every type, CNAME too.
C11_TtlOnlyChange ==
    Listed =>
        \A k \in ListedKeys :
            TtlOnlyChange(k) =>
                /\ call.err = "nil"
                /\ k \in call.namesToUpdate
                /\ Cardinality(UpsertsOf(k)) = 1
                /\ \A i \in 1..Len(call.corrections) :
                      call.corrections[i].Msg = k =>
                          /\ call.corrections[i].Op = "CreateOrUpdate"
                          /\ call.corrections[i].Type = k.Type
                          /\ \A h \in DesiredUnder(call.dc, k) :
                                call.corrections[i].RRSet.TTL
                                    = call.dc.Records[h].TTL

\* a listed CNAME set whose TTL alone changes: the plan is the one upsert
C11_Witness ==
    /\ Listed
    /\ \E k \in ListedKeys :
          /\ TtlOnlyChange(k)
          /\ k.Type = "CNAME"
          /\ Len(call.corrections) = 1
          /\ call.corrections[1].Op = "CreateOrUpdate"
          /\ call.corrections[1].RRSet.TTL = 600

\* the remote record-set a correction is addressed to
TargetOf(rs, c) ==
    {s \in rs[c.Zone] :
        s.Name = c.Name /\ azureRecordToRecordType(s.Type) = c.Type}

SameContent(s, rrset) ==
    /\ s.TTL = rrset.TTL
    /\ s.ARecords = rrset.ARecords
    /\ s.AaaaRecords = rrset.AaaaRecords
    /\ s.CnameRecord = rrset.CnameRecord
    /\ s.MxRecords = rrset.MxRecords

\* the remote zone is already what correction c makes of it: the target of a
\* delete is absent, the target of an upsert holds the content of the upsert
AlreadyApplied(rs, c) ==
    IF c.Op = "Delete" THEN TargetOf(rs, c) = {}
    ELSE /\ TargetOf(rs, c) # {}
         /\ \A s \in TargetOf(rs, c) : SameContent(s, c.RRSet)

RemoteNow == ListAllByDNSZone(rsets, DcName)

\* C13 (as claimed): after a run in which some corrections of the plan failed
\* or were left out, a following GetDomainCorrections for the same
\* configuration returns no planning error, and once its whole plan has been
\* executed without an error the remote zone equals the desired records.
C13_PartialRerun ==
    (/\ IsGDC
     /\ rerun = "partial"
     /\ OwnZone
     /\ call.err # "remote"
     /\ next > Len(call.corrections)
     /\ ~failed) =>
        /\ call.err = "nil"
        /\ Converged(RemoteNow, call.dc)

\* C14: a call to GetDomainCorrections, whatever it returns, leaves the remote
\* zones and their record-sets as they are and issues no request but the
\* listing; the record-sets change only in a step in which the caller
\* executes a correction of the plan it holds.
C14_PlanningDoesNotMutate ==
    [][/\ (IsGDC' /\ ~(call' = call /\ next' = next + 1)) =>
              /\ rsets' = rsets
              /\ account' = account
              /\ \A i \in 1..Len(call'.requests) :
                    call'.requests[i].Op = "ListAllByDNSZone"
       /\ rsets' # rsets =>
              /\ IsGDC
              /\ call' = call
              /\ next <= Len(call.corrections)
              /\ next' = next + 1]_vars

\* a plan with a delete and an upsert was computed on a zone that holds
\* record-sets; nothing of it is executed and the zone is as it was listed
C14_Witness ==
    /\ IsGDC
    /\ call.err = "nil"
    /\ next = 1
    /\ \E i, j \in 1..Len(call.corrections) :
          /\ call.corrections[i].Op = "Delete"
          /\ call.corrections[j].Op = "CreateOrUpdate"
    /\ call.records # <<>>
    /\ call.records = ListAllByDNSZone(rsets, zones[call.domain].Name)

\* what GetDomainCorrections(dc) can return when it runs alone, from the
\* zone cache and the remote record-sets as they are now
AloneResults(dc) ==
    IF Punycode(dc) # "nil" THEN {[corrections |-> <<>>, err |-> Punycode(dc)]}
    ELSE IF ~zoneKnown(dc.Name)
    THEN {[corrections |-> <<>>, err |-> "errNoExist"]}
    ELSE LET zone    == zones[dc.Name]
             records == fetchRecordSets(zone.Name, FALSE).records
             names   == ChangedGroups(dc.Records,
                                      existingRecordsOf(records, dc.Name))
         IN {[corrections |-> <<>>, err |-> "remote"]}
            \cup {[corrections |-> p.corrections, err |-> p.err] :
                     p \in {planLoop(order, 1, dc, records, zone, <<>>) :
                               order \in Perms(names)}}

\* what each call that has come to its end returns is a result of the call
\* run alone
AsWhenAlone ==
    \A d \in ZoneNames :
        inflight[d].at = "done" =>
            [corrections |-> inflight[d].corrections, err |-> inflight[d].err]
                \in AloneResults(inflight[d].dc)

\* C15: no step of any operation writes the zone cache, and whatever the
\* interleaving of the GetDomainCorrections calls that run at the same time
\* for different domains, what each of them returns is a result the call
\* returns when it runs alone.
C15_NoSharedMutableState ==
    [][zones' = zones]_vars /\ []AsWhenAlone

\* two calls ran at the same time on zones that hold record-sets, and both
\* have a plan
C15_Witness ==
    /\ \A d \in ZoneNames :
          /\ inflight[d].at = "done"
          /\ inflight[d].dc.Name = d
          /\ inflight[d].corrections # <<>>
          /\ inflight[d].records # <<>>

\* the records the payload of an upsert of a type carries, in order
Carried(rrset, type) ==
    CASE type = "A" ->
           [i \in 1..Len(rrset.ARecords) |-> <<rrset.ARecords[i], 0>>]
      [] type = "AAAA" ->
           [i \in 1..Len(rrset.AaaaRecords) |-> <<rrset.AaaaRecords[i], 0>>]
      [] type = "CNAME" ->
           IF rrset.CnameRecord = NilString THEN <<>>
           ELSE <<(<<rrset.CnameRecord, 0>>)>>
      [] OTHER ->
           [i \in 1..Len(rrset.MxRecords) |->
               <<rrset.MxRecords[i].Exchange, rrset.MxRecords[i].Preference>>]

\* the desired records of key k, in the order of the configuration
DesiredOf(k) == SelectSeq(call.dc.Records, LAMBDA rc : Key(rc) = k)

\* C16 (as claimed): a changed key with desired records gets one upsert; it
\* carries every desired record of the key, in the desired order, with the
\* TTL of the last of them, and is addressed to the label of that last record
\* and to the type of the key.
C16_UpsertPayload ==
    (IsGDC /\ call.err = "nil") =>
        \A k \in UpsertKeys :
            /\ Cardinality(UpsertsOf(k)) = 1
            /\ \A i \in UpsertsOf(k) :
                  LET c    == call.corrections[i]
                      recs == DesiredOf(k)
                  IN /\ Carried(c.RRSet, k.Type)
                          = [j \in 1..Len(recs) |->
                                <<recs[j].Target, recs[j].MxPreference>>]
                     /\ c.RRSet.TTL = Last(recs).TTL
                     /\ c.Name = Last(recs).Name
                     /\ c.Type = k.Type

\* the listing the provider was constructed from: zones created later are
\* appended to it
InitialListing ==
    CHOOSE l \in AccountListings :
        Len(l) <= Len(account) /\ SubSeq(account, 1, Len(l)) = l

\* the zones EnsureDomainExists has created since the provider was
\* constructed
CreatedZones ==
    {account[i].Name : i \in (Len(InitialListing) + 1)..Len(account)}

\* C17 (as claimed): once EnsureDomainExists has created the zone of a domain
\* that was not known, a later GetNameservers or GetDomainCorrections for
\* that domain on the same provider does not return the not-found error, and
\* a later EnsureDomainExists for it issues no zone-creation request.
C17_EnsureThenReconcile ==
    [][(call' # call /\ call'.domain \in CreatedZones) =>
           /\ call'.err # "errNoExist"
           /\ call'.op = "EnsureDomainExists" => call'.requests = <<>>]_vars

\* C18 (as claimed): in a plan no remote record-set (zone, name, type) is the
\* target of more than one delete, pure and conflict-clearing deletes counted
\* together.
C18_NoDuplicateDeletes ==
    IsGDC =>
        \A i, j \in 1..Len(call.corrections) :
            (/\ call.corrections[i].Op = "Delete"
             /\ call.corrections[j].Op = "Delete"
             /\ call.corrections[i].Zone = call.corrections[j].Zone
             /\ call.corrections[i].Name = call.corrections[j].Name
             /\ call.corrections[i].Type = call.corrections[j].Type) => i = j

\* the desired records hold no CNAME next to an A or AAAA record of the
\* same name
NoMix(dc) ==
    \A i, j \in 1..Len(dc.Records) :
        ~(/\ dc.Records[i].NameFQDN = dc.Records[j].NameFQDN
          /\ dc.Records[i].Type = "CNAME"
          /\ dc.Records[j].Type \in {"A", "AAAA"})

\* the listed record-sets a delete correction is addressed to
ListedTargets(c) ==
    {j \in 1..Len(call.records) :
        /\ call.records[j].Name = c.Name
        /\ azureRecordToRecordType(call.records[j].Type) = c.Type}

\* C19: when the desired records hold no CNAME next to an A or AAAA record
\* of the same name, every delete of the plan, pure or conflict-clearing, is
\* addressed to a listed record-set of the zone, and the key of every
\* record-set it is addressed to has no desired record.
C19_DesiredNeverDeleted ==
    (IsGDC /\ NoMix(call.dc)) =>
        \A i \in 1..Len(call.corrections) :
            call.corrections[i].Op = "Delete" =>
                /\ call.corrections[i].Zone = zones[call.domain].Name
                /\ ListedTargets(call.corrections[i]) # {}
                /\ \A j \in ListedTargets(call.corrections[i]) :
                      DesiredUnder(call.dc, NativeKey(call.records[j])) = {}

\* a listed CNAME gives way to desired A records while another listed set
\* stays desired: the plan deletes the CNAME and only the CNAME
C19_Witness ==
    /\ IsGDC
    /\ NoMix(call.dc)
    /\ \E i \in 1..Len(call.corrections) :
          /\ call.corrections[i].Op = "Delete"
          /\ call.corrections[i].Type = "CNAME"
          /\ call.corrections[i].Msg.Type = "A"
    /\ \E j \in 1..Len(call.records) :
          DesiredUnder(call.dc, NativeKey(call.records[j])) # {}
====
